---- MODULE Spec2Model ----
(***************************************************************************)
(* Model of the generation-task orchestration layer of comic-image-gen-mcp *)
(* (src/index.ts): the batch scheduler runWithConcurrency inside           *)
(* batchGenerateImages, and the job poller pollSora2Task.                  *)
(*                                                                         *)
(* JavaScript runs each stretch of code between two awaits without         *)
(* interruption, so one action is one such stretch: a tool call up to its  *)
(* first await, or the resumption of an await up to the next one.          *)
(***************************************************************************)
EXTENDS Integers, Sequences, FiniteSets, TLC

\* ------------------------------------------------------------------ bounds
MaxTasks == 4          \* largest accepted batch that is explored
MaxLimit == 3          \* largest accepted max_concurrent that is explored
MaxRefs == 2           \* longest reference_images list that is explored
MaxClock == 2          \* latest reading of Date.now() that is explored
MaxWriters == 2        \* concurrent tasks of a batch whose saves are explored
MaxOutputs == 2        \* most images one of these tasks extracts

\* ------------------------------------------------------- program constants
MaxBatchTasks == 20        \* tasks.length > 20 is rejected
MinConcurrent == 1         \* max_concurrent < 1 is rejected
MaxConcurrent == 10        \* max_concurrent > 10 is rejected
DefaultMaxConcurrent == 3  \* const { tasks, max_concurrent = 3 } = args
PollsPerMinute == 6        \* maxAttempts = maxWaitMinutes * 6
BaseWaitMinutes == 5
LongDurationExtraMinutes == 2
HdExtraMinutes == 10
HttpNotFound == 404
MinGuidanceTenths == 10    \* guidance_scale < 1.0 is rejected (in tenths)
MaxGuidanceTenths == 100   \* guidance_scale > 10.0 is rejected (in tenths)
MinNumImages == 1          \* num_images < 1 is rejected
MaxNumImages == 4          \* num_images > 4 is rejected

VARIABLES
    \* ---- batch_generate_images
    tasksLen,        \* args.tasks.length (0 also stands for a missing array)
    max_concurrent,  \* args.max_concurrent: <<>> when undefined, else <<k>>
    bpc,             \* "idle" | "race" | "all" | "returned" | "rejected" ("off": not called)
    batchError,      \* "none" | "InvalidParams" | "InternalError"
    i,               \* loop variable of runWithConcurrency
    executing,       \* the array `executing`, promises named by task index
    launchOrder,     \* task indices in the order their execution started
    settled,         \* task indices whose promise has settled
    results,         \* the array `results`, in completion order
    returned,        \* the array runWithConcurrency returned, as batchGenerateImages reads it
    summary,         \* counts printed by batchGenerateImages
    \* ---- pollSora2Task
    hd, duration,    \* job parameters deciding the budget
    ppc,             \* "idle" | "querying" | "sleeping" | "returned" | "failed" | "timeout" ("off": not called)
    maxWaitMinutes,  \* the budget handed to pollSora2Task
    maxAttempts, attempts,
    queries,         \* status queries issued to the provider
    responses,       \* status responses received from the provider
    lastResp,        \* the latest response
    prefixRunning,   \* every response before the latest was a pending/running status
    prefixBenign,    \* every response before the latest was non-terminal or 404
    seenNotFound,    \* some response so far was a 404
    sleeps,          \* 10 second waits that have run to their end
    pollResult,      \* the task data pollSora2Task returned
    pollError,       \* "none" | "failed" | "transport" | "timeout"
    pollReason,      \* the reason carried by a "failed" error
    \* ---- generateSora2Video
    vpc,             \* "idle" | "submitting" | "polling" | "downloading" | "writing" | "done" | "failed" ("off": not called)
    video_output_directory,  \* args.output_directory: <<>> when undefined, else <<dir>>
    submitResp,      \* what the submission POST came back with
    taskId,          \* response.data.task_id ("undefined" when the body has none)
    videoError,      \* message of the McpError generateSora2Video threw, "none" if none
    downloads,       \* downloads of the result that were started
    videoResult,     \* what the returned text reports
    videoTried,      \* file paths downloadVideo was called with, in order
    videoFiles,      \* file paths downloadVideo has written
    \* ---- generateImage
    gpc,             \* "idle" | "refs" | "posting" | "saving" | "done" | "failed" ("off": not called)
    gargs,           \* the arguments of the call
    refIdx,          \* position in reference_images of the locator being processed
    refTouched,      \* locators that were looked up, fetched or read, in order
    processedRefs,   \* processedImages of processReferenceImages
    refFailedAt,     \* positions whose fetch or read came back with a failure
    genResp,         \* what the generation POST came back with
    posts,           \* generation requests sent
    imageDatas,      \* what extractImageData returned
    saveIdx,         \* loop variable i of the save loop (0-based)
    clock,           \* Date.now()
    saveTried,       \* file paths saveImage was called with, in order
    saveOutcomes,    \* per call of saveImage that has ended: TRUE when it succeeded
    filesWritten,    \* file paths written
    savedPaths,      \* the array savedPaths
    gerror,          \* the error generateImage threw
    gresult,         \* what the returned text reports per image
    \* ---- the tasks of one batch that persist their outputs
    wpc,             \* per task: "idle" | "posting" | "saving" | "done"
    wargs,           \* per task: output_directory and filename of the task
    wcount,          \* per task: imageDatas.length
    widx,            \* per task: loop variable i of the save loop (0-based)
    wpath,           \* per task: the file path saveImage is writing, <<>> if none
    wfiles,          \* per task: file paths written
    \* ---- querySora2Task
    qpc,             \* "idle" | "querying" | "done" | "failed" ("off": not called)
    query_task_id,   \* args.task_id ("" when missing)
    qresp,           \* what the status query came back with
    qreport,         \* what the returned text says about the job
    qerror           \* "none" | "InvalidParams" | "InternalError"

batchVars == <<tasksLen, max_concurrent, bpc, batchError, i, executing,
               launchOrder, settled, results, returned, summary>>
pollVars == <<hd, duration, ppc, maxWaitMinutes, maxAttempts, attempts, queries,
              responses, lastResp, prefixRunning, prefixBenign, seenNotFound,
              sleeps, pollResult, pollError, pollReason>>
videoVars == <<vpc, video_output_directory, submitResp, taskId, videoError,
               downloads, videoResult, videoTried, videoFiles>>
taskVars == <<gpc, gargs, refIdx, refTouched, processedRefs, refFailedAt, genResp,
              posts, imageDatas,
              saveIdx, clock, saveTried, saveOutcomes, filesWritten, savedPaths,
              gerror, gresult>>
taskVarsButClock ==
    <<gpc, gargs, refIdx, refTouched, processedRefs, refFailedAt, genResp, posts,
      imageDatas, saveIdx, saveTried, saveOutcomes, filesWritten, savedPaths,
      gerror, gresult>>
writerVars == <<wpc, wargs, wcount, widx, wpath, wfiles>>
queryVars == <<qpc, query_task_id, qresp, qreport, qerror>>
vars == <<batchVars, pollVars, videoVars, taskVars, writerVars, queryVars>>

\* =====================================================================
\* Batch scheduler
\* =====================================================================

TaskOutcomes == {"success", "InvalidParams", "InternalError"}

\* Task counts and limits a caller may send: the explored range, plus the
\* first value past each limit of the program.
TaskCounts == (0 .. MaxTasks) \cup {MaxBatchTasks + 1}
LimitArgs == {<<>>} \cup {<<k>> : k \in (0 .. MaxLimit) \cup {MaxConcurrent + 1}}

NoSummary == [total |-> 0, successCount |-> 0, failCount |-> 0]

\* CallToolRequestSchema handler, batch_generate_images branch.
HandlerAcceptsNoCheck(n, mc) == TRUE
HandlerAccepts(n, mc) ==
    /\ n # 0
    /\ mc # <<>> => ~(mc[1] < MinConcurrent \/ mc[1] > MaxConcurrent)

\* batchGenerateImages, the checks before dispatch.
PreflightAccepts(n) ==
    /\ n # 0
    /\ ~(n > MaxBatchTasks)

\* const { tasks, max_concurrent = 3 } = args
EffectiveLimit(mc) == IF mc = <<>> THEN DefaultMaxConcurrent ELSE mc[1]

\* The entry one task execution pushes on `results`: the try branch pushes a
\* success entry, the catch branch a failure entry carrying the message.
TaskEntry(t, outcome) ==
    [success |-> outcome = "success", taskIndex |-> t,
     error |-> IF outcome = "success" THEN "none" ELSE outcome]

\* What one task execution pushes on `results` over its whole run: the try
\* branch and the catch branch push one entry between them.
EntriesPushedBothBranches(t, outcome) ==
    IF outcome = "success" THEN <<TaskEntry(t, outcome)>>
    ELSE <<TaskEntry(t, "success"), TaskEntry(t, outcome)>>
EntriesPushed(t, outcome) == <<TaskEntry(t, outcome)>>

\* How the promise of one task execution settles: the catch clause absorbs
\* every error of generateImage, so the promise always fulfils.
PromiseSettlementNoCatch(outcome) ==
    IF outcome = "success" THEN "fulfilled" ELSE "rejected"
PromiseSettlement(outcome) == "fulfilled"

\* executing.findIndex((p) => p === promise): 0-based, -1 when absent.
FindIndex(ex, p) ==
    IF \E k \in 1 .. Len(ex) : ex[k] = p
    THEN (CHOOSE k \in 1 .. Len(ex) :
              ex[k] = p /\ \A j \in 1 .. k - 1 : ex[j] # p) - 1
    ELSE -1

\* executing.splice(start, 1): a negative start counts from the end.
Splice1Nothing(ex, start) == ex
Splice1(ex, start) ==
    LET s == IF start < 0
             THEN (IF Len(ex) + start < 0 THEN 0 ELSE Len(ex) + start)
             ELSE (IF start > Len(ex) THEN Len(ex) ELSE start)
    IN  [k \in 1 .. (IF s < Len(ex) THEN Len(ex) - 1 ELSE Len(ex)) |->
            IF k <= s THEN ex[k] ELSE ex[k + 1]]

\* The for loop of runWithConcurrency from loop index idx to its next await:
\* each iteration starts the task, pushes its promise, and awaits
\* Promise.race when executing.length >= limit; past the last task the
\* function awaits Promise.all.
RECURSIVE RunLoopFromLast(_, _, _, _, _)
RunLoopFromLast(idx, ex, lo, n, limit) ==
    IF ~(idx < n)
    THEN [pc |-> "all", i |-> idx, executing |-> ex, launchOrder |-> lo]
    ELSE LET ex2 == Append(ex, idx)
             lo2 == Append(lo, n - 1 - idx)
         IN  IF Len(ex2) >= limit
             THEN [pc |-> "race", i |-> idx, executing |-> ex2, launchOrder |-> lo2]
             ELSE RunLoopFromLast(idx + 1, ex2, lo2, n, limit)
RECURSIVE RunLoopOffByOne(_, _, _, _, _)
RunLoopOffByOne(idx, ex, lo, n, limit) ==
    IF ~(idx < n)
    THEN [pc |-> "all", i |-> idx, executing |-> ex, launchOrder |-> lo]
    ELSE LET ex2 == Append(ex, idx)
             lo2 == Append(lo, idx)
         IN  IF Len(ex2) >= limit - 1
             THEN [pc |-> "race", i |-> idx, executing |-> ex2, launchOrder |-> lo2]
             ELSE RunLoopOffByOne(idx + 1, ex2, lo2, n, limit)
RECURSIVE RunLoop(_, _, _, _, _)
RunLoop(idx, ex, lo, n, limit) ==
    IF ~(idx < n)
    THEN [pc |-> "all", i |-> idx, executing |-> ex, launchOrder |-> lo]
    ELSE LET ex2 == Append(ex, idx)
             lo2 == Append(lo, idx)
         IN  IF Len(ex2) >= limit
             THEN [pc |-> "race", i |-> idx, executing |-> ex2, launchOrder |-> lo2]
             ELSE RunLoop(idx + 1, ex2, lo2, n, limit)

\* results.sort((a, b) => a.taskIndex - b.taskIndex): a stable sort, so
\* the entry at position j moves to the position that counts the entries
\* with a smaller task index and the equal ones before it.
SortedPosition(rs, j) ==
    Cardinality({l \in 1 .. Len(rs) :
        \/ rs[l].taskIndex < rs[j].taskIndex
        \/ rs[l].taskIndex = rs[j].taskIndex /\ l <= j})
SortByTaskIndex(rs) ==
    [k \in 1 .. Len(rs) |-> rs[CHOOSE j \in 1 .. Len(rs) : SortedPosition(rs, j) = k]]

ReturnOrderUnsorted(rs) == rs
ReturnOrder(rs) == SortByTaskIndex(rs)

\* The counts batchGenerateImages prints from the returned array.
Summarize(n, rs) ==
    LET ok == Cardinality({k \in 1 .. Len(rs) : rs[k].success})
    IN  [total |-> n, successCount |-> ok, failCount |-> Len(rs) - ok]

InFlight == {t \in {launchOrder[k] : k \in 1 .. Len(launchOrder)} : t \notin DOMAIN settled}

InitBatch ==
    /\ tasksLen \in TaskCounts
    /\ max_concurrent \in LimitArgs
    /\ bpc = "idle"
    /\ batchError = "none"
    /\ i = 0
    /\ executing = <<>>
    /\ launchOrder = <<>>
    /\ settled = << >>
    /\ results = <<>>
    /\ returned = <<>>
    /\ summary = NoSummary

BatchIdle ==
    /\ tasksLen = 0
    /\ max_concurrent = <<>>
    /\ bpc = "off"
    /\ batchError = "none"
    /\ i = 0
    /\ executing = <<>>
    /\ launchOrder = <<>>
    /\ settled = << >>
    /\ results = <<>>
    /\ returned = <<>>
    /\ summary = NoSummary

\* The tool call: the handler's checks, the checks of batchGenerateImages,
\* then runWithConcurrency up to its first await.
BatchCall ==
    /\ bpc = "idle"
    /\ IF HandlerAccepts(tasksLen, max_concurrent) /\ PreflightAccepts(tasksLen)
       THEN LET r == RunLoop(0, <<>>, <<>>, tasksLen, EffectiveLimit(max_concurrent))
            IN  /\ bpc' = r.pc
                /\ i' = r.i
                /\ executing' = r.executing
                /\ launchOrder' = r.launchOrder
                /\ batchError' = "none"
       ELSE /\ bpc' = "rejected"
            /\ batchError' = "InvalidParams"
            /\ UNCHANGED <<i, executing, launchOrder>>
    /\ UNCHANGED <<tasksLen, max_concurrent, settled, results, returned, summary>>
    /\ UNCHANGED <<pollVars, videoVars, taskVars, writerVars, queryVars>>

\* One started task execution ends: generateImage returned or threw, the
\* entry is pushed on `results` and the promise settles.
TaskSettles ==
    /\ \E t \in InFlight, outcome \in TaskOutcomes :
          /\ results' = results \o EntriesPushed(t, outcome)
          /\ settled' = (t :> PromiseSettlement(outcome)) @@ settled
    /\ UNCHANGED <<tasksLen, max_concurrent, bpc, batchError, i, executing,
                   launchOrder, returned, summary>>
    /\ UNCHANGED <<pollVars, videoVars, taskVars, writerVars, queryVars>>

\* await Promise.race(executing) resumes once some promise of `executing`
\* has settled; the promise just pushed is spliced out and the loop goes on.
RaceResumes ==
    /\ bpc = "race"
    /\ \E k \in 1 .. Len(executing) : executing[k] \in DOMAIN settled
    /\ IF \E k \in 1 .. Len(executing) :
             executing[k] \in DOMAIN settled /\ settled[executing[k]] = "rejected"
       THEN /\ bpc' = "rejected"
            /\ batchError' = "InternalError"
            /\ UNCHANGED <<i, executing, launchOrder>>
       ELSE LET ex == Splice1(executing, FindIndex(executing, i))
                r == RunLoop(i + 1, ex, launchOrder, tasksLen,
                             EffectiveLimit(max_concurrent))
            IN  /\ bpc' = r.pc
                /\ i' = r.i
                /\ executing' = r.executing
                /\ launchOrder' = r.launchOrder
                /\ batchError' = "none"
    /\ UNCHANGED <<tasksLen, max_concurrent, settled, results, returned, summary>>
    /\ UNCHANGED <<pollVars, videoVars, taskVars, writerVars, queryVars>>

\* await Promise.all(executing) resumes once every promise still in
\* `executing` has settled; the sorted array is returned and summarised.
AllResumes ==
    /\ bpc = "all"
    /\ \A k \in 1 .. Len(executing) : executing[k] \in DOMAIN settled
    /\ IF \E k \in 1 .. Len(executing) : settled[executing[k]] = "rejected"
       THEN /\ bpc' = "rejected"
            /\ batchError' = "InternalError"
            /\ UNCHANGED <<returned, summary>>
       ELSE /\ bpc' = "returned"
            /\ returned' = ReturnOrder(results)
            /\ summary' = Summarize(tasksLen, ReturnOrder(results))
            /\ batchError' = "none"
    /\ UNCHANGED <<tasksLen, max_concurrent, i, executing, launchOrder,
                   settled, results>>
    /\ UNCHANGED <<pollVars, videoVars, taskVars, writerVars, queryVars>>

\* =====================================================================
\* Properties of the batch scheduler
\* =====================================================================

Launched == {launchOrder[k] : k \in 1 .. Len(launchOrder)}
EntriesOf(rs) == {rs[k] : k \in 1 .. Len(rs)}
BatchParamsInRange ==
    /\ tasksLen \in 1 .. MaxBatchTasks
    /\ max_concurrent # <<>> => max_concurrent[1] \in MinConcurrent .. MaxConcurrent

\* C1: the array returned by the batch run has exactly N entries and its
\* i-th entry is the outcome of the i-th submitted task; no outcome is
\* missing, whatever the completion order.
C1_ReturnedCoversEveryTask ==
    bpc = "returned" =>
        /\ Len(returned) = tasksLen
        /\ \A k \in 1 .. Len(returned) : returned[k].taskIndex = k - 1

\* C2: at every moment of a batch run with limit K, at most K task
\* executions have started and not yet completed.
C2_InFlightAtMostLimit ==
    bpc \in {"race", "all", "returned"} =>
        Cardinality(InFlight) <= EffectiveLimit(max_concurrent)

\* C3: when some task of the batch fails, every other task is still
\* launched and runs to its own outcome, and the returned result holds the
\* failure entry together with the entry of every task that produced one.
C3_FailureLeavesOthersReported ==
    (bpc = "returned" /\ \E e \in EntriesOf(results) : ~e.success) =>
        /\ Launched = 0 .. tasksLen - 1
        /\ \A e \in EntriesOf(results) : e \in EntriesOf(returned)

\* C4: the entries of the returned array are in ascending task index,
\* whatever order the tasks completed in.
C4_ReturnedAscending ==
    bpc = "returned" =>
        \A j, k \in 1 .. Len(returned) :
            j < k => returned[j].taskIndex < returned[k].taskIndex

C4_Witness ==
    /\ bpc = "returned"
    /\ Len(returned) >= 3
    /\ results[1].taskIndex > results[2].taskIndex
    /\ returned # SubSeq(results, 1, Len(returned))

\* C5: a batch whose task count is outside 1..20 or whose limit is outside
\* 1..10 is rejected with InvalidParams and none of its tasks is started.
C5_OutOfRangeRejected ==
    (bpc # "idle" /\ ~BatchParamsInRange) =>
        /\ bpc = "rejected"
        /\ batchError = "InvalidParams"
        /\ launchOrder = <<>>
        /\ results = <<>>

C5_Witness ==
    /\ bpc = "rejected"
    /\ tasksLen \in 1 .. MaxBatchTasks
    /\ max_concurrent = <<MaxConcurrent + 1>>
    /\ launchOrder = <<>>

\* C6: once the checks before dispatch pass, the batch never ends in an
\* error, whatever tasks fail, and what it returns is a summary of the
\* entries recorded.
C6_AcceptedBatchNeverErrors ==
    (bpc # "idle" /\ BatchParamsInRange) =>
        /\ bpc # "rejected"
        /\ batchError = "none"
        /\ bpc = "returned" =>
              /\ summary.total = tasksLen
              /\ summary.failCount =
                     Cardinality({k \in 1 .. Len(returned) : ~returned[k].success})

C6_Witness ==
    /\ bpc = "returned"
    /\ tasksLen >= 2
    /\ summary.failCount = tasksLen
    /\ summary.successCount = 0

Tracked(ex) == {ex[k] : k \in 1 .. Len(ex)}

\* C28: every execution the scheduler removes from its in-flight tracking
\* set has already completed at the moment of removal, and a task beyond the
\* first K is launched only after some tracked execution has completed
\* since the set became full, so that a launch never leaves more than K
\* executions started and not completed.
C28_RemovedHasCompleted ==
    [][/\ \A t \in Tracked(executing) :
              t \notin Tracked(executing') => t \in DOMAIN settled
       /\ (bpc = "race" /\ Len(launchOrder') > Len(launchOrder)) =>
              Len(launchOrder') - Cardinality(DOMAIN settled)
                  <= EffectiveLimit(max_concurrent)]_vars

\* C29: if every task execution eventually completes, the batch run
\* eventually returns, for every accepted task count and limit; the
\* scheduler only ever waits on executions it has started, and never
\* deadlocks.
C29_BatchEventuallyReturns ==
    /\ [](bpc \in {"race", "all"} => Tracked(executing) \subseteq Launched)
    /\ []((bpc # "idle" /\ BatchParamsInRange) => bpc \in {"race", "all", "returned"})
    /\ <>(bpc \in {"returned", "rejected"})

C29_Witness ==
    /\ bpc = "returned"
    /\ tasksLen = 4
    /\ max_concurrent = <<2>>
    /\ DOMAIN settled = 0 .. 3
    /\ \E k \in 1 .. Len(results) : ~results[k].success

GivenLimit == IF max_concurrent = <<>> THEN 3 ELSE max_concurrent[1]

\* C30: when the limit K exceeds the number of tasks N, all N tasks are
\* launched before the scheduler waits for any completion, and the run
\* returns only after all N have completed.
C30_LimitAboveCountLaunchesAll ==
    (bpc \notin {"idle", "rejected"} /\ GivenLimit > tasksLen) =>
        /\ bpc \in {"all", "returned"}
        /\ launchOrder = [k \in 1 .. tasksLen |-> k - 1]
        /\ bpc = "returned" =>
              /\ DOMAIN settled = 0 .. tasksLen - 1
              /\ Len(returned) = tasksLen

C30_Witness ==
    /\ bpc = "returned"
    /\ tasksLen = 2
    /\ max_concurrent = <<3>>
    /\ results[1].taskIndex = 1
    /\ Len(returned) = 2

\* C31: tasks are launched in queue order: for every i < j, task i is
\* started before task j is started, whatever the completion order.
C31_LaunchedInQueueOrder ==
    \A j, k \in 1 .. Len(launchOrder) :
        j < k => launchOrder[j] < launchOrder[k]

C31_Witness ==
    /\ bpc = "returned"
    /\ launchOrder = <<0, 1, 2>>
    /\ Len(results) = 3
    /\ results[1].taskIndex = 2
    /\ results[3].taskIndex = 0

\* C32: with limit K = 1 the batch runs strictly sequentially: task i+1 is
\* started only after task i has completed, and the run returns all N
\* outcomes.
C32_LimitOneIsSequential ==
    (bpc \notin {"idle", "rejected"} /\ GivenLimit = 1) =>
        /\ Cardinality(InFlight) <= 1
        /\ \A k \in 1 .. Len(launchOrder) - 1 : launchOrder[k] \in DOMAIN settled
        /\ bpc = "returned" =>
              /\ Len(returned) = tasksLen
              /\ \A k \in 1 .. Len(returned) : returned[k].taskIndex = k - 1
              /\ returned = results

C32_Witness ==
    /\ bpc = "returned"
    /\ max_concurrent = <<1>>
    /\ tasksLen = 4
    /\ Len(returned) = 4
    /\ ~returned[2].success
    /\ returned[3].success

\* C33: in every batch run each task is started at most once and records at
\* most one outcome: the result collection never holds two entries with the
\* same task index.
C33_OneOutcomePerTask ==
    /\ \A j, k \in 1 .. Len(launchOrder) : j # k => launchOrder[j] # launchOrder[k]
    /\ \A j, k \in 1 .. Len(results) : j # k => results[j].taskIndex # results[k].taskIndex
    /\ \A j, k \in 1 .. Len(returned) : j # k => returned[j].taskIndex # returned[k].taskIndex

C33_Witness ==
    /\ bpc = "returned"
    /\ tasksLen = 4
    /\ max_concurrent = <<>>
    /\ Len(results) = 4
    /\ \A k \in 1 .. 4 : ~results[k].success

\* =====================================================================
\* Job poller
\* =====================================================================

\* What one status query can come back with: task data (HTTP 2xx), an HTTP
\* error status, or no response at all.
StatusValues ==
    {"absent", "pending", "Pending", "running", "processing", "queued",
     "completed", "COMPLETED", "success", "succeeded", "Succeeded",
     "failed", "Failed", "error", "ERROR"}
DataResponses ==
    [kind : {"data"}, code : {200}, status : StatusValues,
     video_url : {"none", "X"}, error : {"none", "E"}]
ErrorResponses ==
    [kind : {"http"}, code : {HttpNotFound, 500}, status : {"absent"},
     video_url : {"none"}, error : {"none"}]
    \cup [kind : {"network"}, code : {0}, status : {"absent"},
          video_url : {"none"}, error : {"none"}]
Responses == DataResponses \cup ErrorResponses
NoResponse ==
    [kind |-> "none", code |-> 0, status |-> "absent", video_url |-> "none",
     error |-> "none"]

Durations == {"10", "15"}

\* String.prototype.toLowerCase on the status values above.
ToLowerCaseIdentity(str) == str
ToLowerCase(str) ==
    CASE str = "Pending" -> "pending"
      [] str = "COMPLETED" -> "completed"
      [] str = "Succeeded" -> "succeeded"
      [] str = "Failed" -> "failed"
      [] str = "ERROR" -> "error"
      [] OTHER -> str

\* status === 'completed' || status === 'success' || status === 'succeeded'
IsCompletedStatusOrAbsent(status) ==
    status = "completed" \/ status = "success" \/ status = "succeeded"
        \/ status = "absent"
IsCompletedStatus(status) ==
    status = "completed" \/ status = "success" \/ status = "succeeded"

\* status === 'failed' || status === 'error'
IsFailedStatusOnlyFailed(status) == status = "failed"
IsFailedStatus(status) == status = "failed" \/ status = "error"

\* axios.isAxiosError(error) && error.response?.status === 404
IsNotFoundNever(resp) == FALSE
IsNotFoundAnyHttp(resp) == resp.kind = "http"
IsNotFound(resp) == resp.kind = "http" /\ resp.code = HttpNotFound

\* The catch clause on a 404: wait and `continue`; `attempts` keeps the
\* increment it got at the head of the loop.
AttemptsAfterNotFoundRefunded(att) == att - 1
AttemptsAfterNotFound(att) == att

\* The body of the try/catch of one loop iteration, given what the query
\* came back with: return the task data, throw, or wait and go round again.
ClassifyResponse(resp) ==
    IF resp.kind = "data"
    THEN LET status == IF resp.status = "absent" THEN "absent"
                       ELSE ToLowerCase(resp.status)
         IN  IF IsCompletedStatus(status) THEN "return"
             ELSE IF IsFailedStatus(status) THEN "throw_failed"
             ELSE "sleep"
    ELSE IF IsNotFound(resp) THEN "sleep" ELSE "throw_transport"

\* `Video generation failed: ${taskData.error || 'Unknown error'}`
FailureReason(resp) == IF resp.error = "none" THEN "Unknown error" ELSE resp.error

\* generateSora2Video: let maxWaitMinutes = 5; +2 for "15"; +10 for hd.
WaitBudgetFlat(h, d) == BaseWaitMinutes + LongDurationExtraMinutes
WaitBudget(h, d) ==
    BaseWaitMinutes
        + (IF d = "15" THEN LongDurationExtraMinutes ELSE 0)
        + (IF h THEN HdExtraMinutes ELSE 0)

\* const maxAttempts = maxWaitMinutes * 6
MaxAttemptsOfTenfold(m) == m * PollsPerMinute * 10
MaxAttemptsOf(m) == m * PollsPerMinute

\* The head of the while loop: either count the attempt and issue the
\* query, or leave the loop and throw the timeout error.
LoopHeadInclusive(att, max) ==
    IF att <= max
    THEN [pc |-> "querying", attempts |-> att + 1, issued |-> 1, error |-> "none"]
    ELSE [pc |-> "timeout", attempts |-> att, issued |-> 0, error |-> "timeout"]
LoopHead(att, max) ==
    IF att < max
    THEN [pc |-> "querying", attempts |-> att + 1, issued |-> 1, error |-> "none"]
    ELSE [pc |-> "timeout", attempts |-> att, issued |-> 0, error |-> "timeout"]

\* await new Promise(resolve => setTimeout(resolve, 10000)): the iteration
\* ends in the 10 second wait; the loop head is reached when it is over.
WaitBeforeNextPollNotAwaited(att, max) == LoopHead(att, max)
WaitBeforeNextPoll(att, max) ==
    [pc |-> "sleeping", attempts |-> att, issued |-> 0, error |-> "none"]

InitPoll ==
    /\ hd \in BOOLEAN
    /\ duration \in Durations
    /\ ppc = "idle"
    /\ maxWaitMinutes = 0
    /\ maxAttempts = 0
    /\ attempts = 0
    /\ queries = 0
    /\ responses = 0
    /\ lastResp = NoResponse
    /\ prefixRunning = TRUE
    /\ prefixBenign = TRUE
    /\ seenNotFound = FALSE
    /\ sleeps = 0
    /\ pollResult = NoResponse
    /\ pollError = "none"
    /\ pollReason = "none"

\* generateSora2Video computes the budget and calls pollSora2Task, which
\* runs to its first status query.
PollEnter ==
    /\ LET m == WaitBudget(hd, duration)
           h == LoopHead(0, MaxAttemptsOf(m))
       IN  /\ maxWaitMinutes' = m
           /\ maxAttempts' = MaxAttemptsOf(m)
           /\ ppc' = h.pc
           /\ attempts' = h.attempts
           /\ queries' = queries + h.issued
           /\ pollError' = h.error
    /\ UNCHANGED <<hd, duration, responses, lastResp, prefixRunning,
                   prefixBenign, seenNotFound, sleeps, pollResult, pollReason>>

PollCall ==
    /\ ppc = "idle"
    /\ PollEnter
    /\ UNCHANGED <<batchVars, videoVars, taskVars, writerVars, queryVars>>

\* What the provider's answers so far look like to an observer of the wire.
RunningStatuses == {"pending", "Pending", "running", "processing"}
SuccessStatuses == {"completed", "COMPLETED", "success", "succeeded", "Succeeded"}
FailureStatuses == {"failed", "Failed", "error", "ERROR"}
SaysRunning(resp) == resp.kind = "data" /\ resp.status \in RunningStatuses
SaysSuccess(resp) == resp.kind = "data" /\ resp.status \in SuccessStatuses
SaysFailure(resp) == resp.kind = "data" /\ resp.status \in FailureStatuses
SaysNotFound(resp) == resp.kind = "http" /\ resp.code = 404
SaysBenign(resp) ==
    \/ resp.kind = "data" /\ resp.status \notin SuccessStatuses \cup FailureStatuses
    \/ SaysNotFound(resp)

\* The outstanding status query comes back with resp.
QueryResponds ==
    /\ ppc = "querying"
    /\ \E resp \in Responses :
          /\ lastResp' = resp
          /\ responses' = responses + 1
          /\ prefixRunning' = (prefixRunning /\ (responses > 0 => SaysRunning(lastResp)))
          /\ prefixBenign' = (prefixBenign /\ (responses > 0 => SaysBenign(lastResp)))
          /\ LET verdict == ClassifyResponse(resp)
             IN  CASE verdict = "return" ->
                        /\ ppc' = "returned"
                        /\ pollResult' = resp
                        /\ UNCHANGED <<pollError, pollReason, attempts, queries>>
                   [] verdict = "throw_failed" ->
                        /\ ppc' = "failed"
                        /\ pollError' = "failed"
                        /\ pollReason' = FailureReason(resp)
                        /\ UNCHANGED <<pollResult, attempts, queries>>
                   [] verdict = "throw_transport" ->
                        /\ ppc' = "failed"
                        /\ pollError' = "transport"
                        /\ UNCHANGED <<pollResult, pollReason, attempts, queries>>
                   [] OTHER ->
                        LET h == WaitBeforeNextPoll(attempts, maxAttempts)
                        IN  /\ ppc' = h.pc
                            /\ attempts' = (IF IsNotFound(resp)
                                            THEN AttemptsAfterNotFound(h.attempts)
                                            ELSE h.attempts)
                            /\ queries' = queries + h.issued
                            /\ pollError' = h.error
                            /\ UNCHANGED <<pollResult, pollReason>>
          /\ seenNotFound' = (seenNotFound \/ SaysNotFound(resp))
    /\ UNCHANGED <<hd, duration, maxWaitMinutes, maxAttempts, sleeps>>
    /\ UNCHANGED <<batchVars, videoVars, taskVars, writerVars, queryVars>>

\* The 10 second wait is over: back to the head of the loop.
SleepElapses ==
    /\ ppc = "sleeping"
    /\ LET h == LoopHead(attempts, maxAttempts)
       IN  /\ ppc' = h.pc
           /\ attempts' = h.attempts
           /\ queries' = queries + h.issued
           /\ pollError' = h.error
    /\ sleeps' = sleeps + 1
    /\ UNCHANGED <<hd, duration, maxWaitMinutes, maxAttempts, responses, lastResp,
                   prefixRunning, prefixBenign, seenNotFound, pollResult, pollReason>>
    /\ UNCHANGED <<batchVars, videoVars, taskVars, writerVars, queryVars>>

PollTerminated == ppc \in {"returned", "failed", "timeout"}

\* ---------------------------------------------------------------------
\* Properties of the job poller
\* ---------------------------------------------------------------------

\* C7: when the first k-1 status responses are pending/running and the k-th
\* is a success synonym, the poller returns the k-th response, with its
\* result locator, after exactly k status queries.
C7_SuccessAtKthQuery ==
    (responses >= 1 /\ prefixRunning /\ SaysSuccess(lastResp)) =>
        /\ ppc = "returned"
        /\ pollResult = lastResp
        /\ queries = responses
        /\ attempts = responses

C7_Witness ==
    /\ ppc = "returned"
    /\ responses = 4
    /\ queries = 4
    /\ prefixRunning
    /\ lastResp.status = "Succeeded"
    /\ pollResult.video_url = "X"

\* C8: once a failed status (or a synonym) is observed the poller ends with
\* that failure and issues no further status query.
C8_FailureStopsPolling ==
    SaysFailure(lastResp) =>
        /\ ppc = "failed"
        /\ pollError = "failed"
        /\ pollReason = (IF lastResp.error = "none" THEN "Unknown error" ELSE lastResp.error)
        /\ queries = responses

C8_Witness ==
    /\ ppc = "failed"
    /\ pollError = "failed"
    /\ lastResp.status = "ERROR"
    /\ responses = 3
    /\ queries = 3
    /\ queries < maxAttempts

\* C9: when none of the first maxWaitMinutes x 6 responses is terminal or a
\* transport failure other than 404, the poller ends with Timeout, after
\* exactly maxWaitMinutes x 6 status queries.
C9_TimeoutAfterBudget ==
    (ppc # "idle" /\ responses = maxWaitMinutes * 6
        /\ prefixBenign /\ SaysBenign(lastResp)) =>
        /\ queries = maxWaitMinutes * 6
        /\ ppc \in {"sleeping", "timeout"}
        /\ ppc = "timeout" => pollError = "timeout"

C9_Witness ==
    /\ ppc = "timeout"
    /\ pollError = "timeout"
    /\ prefixBenign
    /\ SaysBenign(lastResp)
    /\ queries = 30
    /\ responses = 30

\* C10: whatever the provider answers, the poller issues at most
\* maxWaitMinutes x 6 status queries and reaches a terminal outcome.
C10_PollerTerminates ==
    /\ [](ppc # "idle" => queries <= maxWaitMinutes * 6)
    /\ <>PollTerminated

C10_Witness ==
    /\ ppc = "timeout"
    /\ SaysNotFound(lastResp)
    /\ queries = 102
    /\ maxWaitMinutes = 17

\* C11: a status query answered 404 does not end the poller: it waits one
\* interval and, while the budget lasts, queries again, and a later query
\* can still return success.
C11_NotFoundKeepsPolling ==
    SaysNotFound(lastResp) =>
        /\ ppc \in {"sleeping", "querying", "timeout"}
        /\ pollError # "transport"
        /\ ppc = "sleeping" => queries = responses /\ sleeps = responses - 1
        /\ ppc = "querying" => queries = responses + 1 /\ sleeps = responses
        /\ ppc = "timeout" => attempts = maxAttempts /\ sleeps = responses

C11_Witness ==
    /\ ppc = "returned"
    /\ seenNotFound
    /\ SaysSuccess(lastResp)
    /\ responses = 3
    /\ sleeps = 2

\* C12: a status query that fails with a transport failure other than 404
\* ends the poller at once with that failure: no wait and no further query.
C12_TransportFailureEndsPolling ==
    (lastResp.kind \in {"http", "network"} /\ ~SaysNotFound(lastResp)) =>
        /\ ppc = "failed"
        /\ pollError = "transport"
        /\ queries = responses
        /\ sleeps = responses - 1

C12_Witness ==
    /\ ppc = "failed"
    /\ pollError = "transport"
    /\ lastResp.kind = "http"
    /\ lastResp.code = 500
    /\ responses = 3
    /\ queries < maxAttempts

\* C15: at most one status query of a job is outstanding, and each query
\* after the first is issued only once the previous one has come back and
\* the wait that follows it has run to its end.
C15_OneQueryAtATime ==
    ppc \notin {"idle", "off"} =>
        /\ queries - responses \in {0, 1}
        /\ (ppc = "querying") <=> (queries = responses + 1)
        /\ queries <= sleeps + 1
        /\ ppc = "querying" => sleeps = responses

C15_Witness ==
    /\ ppc = "querying"
    /\ queries = 5
    /\ responses = 4
    /\ sleeps = 4

\* The budget in polls each kind of job is to get.
PollsOfJob(h, d) ==
    CASE ~h /\ d = "10" -> 30
      [] ~h /\ d = "15" -> 42
      [] h /\ d = "10" -> 90
      [] h /\ d = "15" -> 102

\* C27: the attempt budget handed to the poller grows with the job
\* parameters: 5 minutes for the base job, 2 minutes more for duration "15"
\* and 10 minutes more for HD (30, 42, 90, 102 polls), so a job of higher
\* quality or longer duration never gets a smaller budget; a job that times
\* out has been queried exactly that often.
C27_BudgetGrowsWithJob ==
    /\ ppc \notin {"idle", "off"} =>
          /\ maxWaitMinutes * 6 = PollsOfJob(hd, duration)
          /\ maxAttempts = PollsOfJob(hd, duration)
          /\ queries <= PollsOfJob(hd, duration)
    /\ ppc = "timeout" => queries = PollsOfJob(hd, duration)
    /\ \A h \in BOOLEAN, d \in Durations :
          /\ WaitBudget(FALSE, d) <= WaitBudget(h, d)
          /\ WaitBudget(h, "10") <= WaitBudget(h, d)

C27_Witness ==
    /\ ppc = "timeout"
    /\ hd
    /\ duration = "15"
    /\ maxWaitMinutes = 17
    /\ queries = 102

\* C34: a status response whose status is absent or is any value other
\* than the success synonyms and the failure synonyms, compared without
\* regard to case, is treated exactly like a running status: the poller
\* waits one interval and polls again, so the job can only end by a later
\* terminal status or by the timeout.
C34_UnknownStatusKeepsPolling ==
    /\ (/\ responses > 0
        /\ responses = queries
        /\ lastResp.kind = "data"
        /\ lastResp.status \notin SuccessStatuses \cup FailureStatuses) =>
          /\ ppc \in {"sleeping", "timeout"}
          /\ ppc = "sleeping" => sleeps = responses - 1
          /\ pollError \in {"none", "timeout"}
    /\ ppc = "returned" => SaysSuccess(lastResp)
    /\ (ppc = "failed" /\ pollError = "failed") => SaysFailure(lastResp)

C34_Witness ==
    /\ ppc = "returned"
    /\ responses = 3
    /\ sleeps = 2
    /\ prefixBenign
    /\ ~prefixRunning
    /\ ~seenNotFound
    /\ lastResp.status = "succeeded"

\* C35: a status query answered "not found" consumes one attempt of the
\* budget exactly as a pending response does, so the number of status
\* queries of a job never exceeds maxWaitMinutes x 6, whatever share of
\* them is answered "not found".
C35_NotFoundConsumesAttempt ==
    /\ [](ppc \notin {"idle", "off"} =>
            /\ attempts = queries
            /\ queries <= maxWaitMinutes * 6
            /\ queries <= PollsOfJob(hd, duration))
    /\ [][(responses' = responses + 1 /\ SaysNotFound(lastResp')) =>
            /\ ppc' = "sleeping"
            /\ attempts' = attempts
            /\ queries' = queries]_vars

C35_Witness ==
    /\ ppc = "timeout"
    /\ seenNotFound
    /\ SaysNotFound(lastResp)
    /\ ~hd
    /\ duration = "10"
    /\ queries = 30
    /\ responses = 30

\* =====================================================================
\* Job-based generation (generateSora2Video), for a job without local
\* source images: URLs and data URLs are passed to the provider untouched.
\* =====================================================================

OutputDirectories == {<<>>, <<"">>, <<"out">>}

\* What the submission POST can come back with: a 2xx body with or without
\* a task_id (and possibly an error field), an HTTP error, or no response.
SubmitResponses ==
    [kind : {"data"}, code : {200}, task_id : {"T1"}, error : {"none"}]
    \cup [kind : {"data"}, code : {200}, task_id : {"undefined"}, error : {"none", "E"}]
    \cup [kind : {"http"}, code : {400, 500}, task_id : {"undefined"}, error : {"E"}]
    \cup [kind : {"network"}, code : {0}, task_id : {"undefined"}, error : {"none"}]
NoSubmitResponse == [kind |-> "none", code |-> 0, task_id |-> "undefined", error |-> "none"]
NoVideoResult == [video_url |-> "none", saved |-> FALSE, downloadFailed |-> FALSE]

\* The catch clause of generateSora2Video: the message of the McpError.
VideoErrorMessage(kind) ==
    CASE kind = "http" -> "Sora2 API error"
      [] kind = "network" -> "No response from Sora2 API"
      [] OTHER -> "Failed to generate video"

\* if (!taskResult.video_url) throw new Error("Video URL not found ...")
HasVideoUrlUnchecked(data) == TRUE
HasVideoUrl(data) == data.video_url # "none"

\* if (output_directory !== undefined)
WantsDownload(dir) == dir # <<>>

\* const targetDir = output_directory || getDefaultOutputDirectory()
VideoTargetDir(dir) == IF dir[1] = "" THEN "tmp/comic-images" ELSE dir[1]

\* const filepath = path.join(targetDir, finalFilename), for a call without
\* a file name: sora2_${timestamp}.mp4
VideoFilepath(dir) == [dir |-> VideoTargetDir(dir), name |-> "sora2_ts.mp4"]

InitVideo ==
    /\ vpc = "idle"
    /\ video_output_directory \in OutputDirectories
    /\ submitResp = NoSubmitResponse
    /\ taskId = "undefined"
    /\ videoError = "none"
    /\ downloads = 0
    /\ videoResult = NoVideoResult
    /\ videoTried = <<>>
    /\ videoFiles = {}

VideoIdle ==
    /\ vpc = "off"
    /\ video_output_directory = <<>>
    /\ submitResp = NoSubmitResponse
    /\ taskId = "undefined"
    /\ videoError = "none"
    /\ downloads = 0
    /\ videoResult = NoVideoResult
    /\ videoTried = <<>>
    /\ videoFiles = {}

\* The tool call up to its first await: the submission POST is sent.
VideoCall ==
    /\ vpc = "idle"
    /\ vpc' = "submitting"
    /\ UNCHANGED <<video_output_directory, submitResp, taskId, videoError,
                   downloads, videoResult, videoTried, videoFiles>>
    /\ UNCHANGED <<batchVars, pollVars, taskVars, writerVars, queryVars>>

\* The submission POST comes back: an axios error goes to the catch clause;
\* any 2xx body has its task_id read and pollSora2Task is called with it.
SubmitResponds ==
    /\ vpc = "submitting"
    /\ \E resp \in SubmitResponses :
          /\ submitResp' = resp
          /\ IF resp.kind = "data"
             THEN /\ taskId' = resp.task_id
                  /\ vpc' = "polling"
                  /\ videoError' = "none"
                  /\ PollEnter
             ELSE /\ vpc' = "failed"
                  /\ videoError' = VideoErrorMessage(resp.kind)
                  /\ UNCHANGED taskId
                  /\ UNCHANGED pollVars
    /\ UNCHANGED <<video_output_directory, downloads, videoResult, videoTried,
                   videoFiles>>
    /\ UNCHANGED <<batchVars, taskVars, writerVars, queryVars>>

\* await pollSora2Task(...) resumes: an error of the poller goes to the catch
\* clause, task data without video_url is thrown as an error, and with an
\* output directory the download of the result is started.
PollReturns ==
    /\ vpc = "polling"
    /\ PollTerminated
    /\ IF ppc = "returned" /\ HasVideoUrl(pollResult)
       THEN /\ videoResult' = [videoResult EXCEPT !.video_url = pollResult.video_url]
            /\ videoError' = "none"
            /\ IF WantsDownload(video_output_directory)
               THEN /\ vpc' = "downloading"
                    /\ downloads' = downloads + 1
                    /\ videoTried' = Append(videoTried,
                                            VideoFilepath(video_output_directory))
               ELSE vpc' = "done" /\ UNCHANGED <<downloads, videoTried>>
       ELSE /\ vpc' = "failed"
            /\ videoError' =
                  (IF ppc = "failed" /\ pollError = "transport"
                   THEN VideoErrorMessage(lastResp.kind)
                   ELSE VideoErrorMessage("error"))
            /\ UNCHANGED <<downloads, videoResult, videoTried>>
    /\ UNCHANGED <<video_output_directory, submitResp, taskId, videoFiles>>
    /\ UNCHANGED <<batchVars, pollVars, taskVars, writerVars, queryVars>>

\* try { await downloadVideo(...) } catch { result += "Failed to download" }:
\* where generateSora2Video stands after a failed download.
AfterDownloadFailureRethrow == "failed"
AfterDownloadFailure == "done"

\* downloadVideo: the GET of the result comes back; its failure is caught
\* and reported in the returned text.
DownloadResponds ==
    /\ vpc = "downloading"
    /\ \E ok \in BOOLEAN :
          IF ok
          THEN vpc' = "writing" /\ UNCHANGED <<videoResult, videoError>>
          ELSE /\ vpc' = AfterDownloadFailure
               /\ videoResult' = [videoResult EXCEPT !.downloadFailed = TRUE]
               /\ videoError' = (IF AfterDownloadFailure = "failed"
                                 THEN VideoErrorMessage("error") ELSE videoError)
    /\ UNCHANGED <<video_output_directory, submitResp, taskId, downloads,
                   videoTried, videoFiles>>
    /\ UNCHANGED <<batchVars, pollVars, taskVars, writerVars, queryVars>>

\* downloadVideo: writeFile ends; its failure is caught in the same way.
VideoWriteEnds ==
    /\ vpc = "writing"
    /\ \E ok \in BOOLEAN :
          /\ vpc' = (IF ok THEN "done" ELSE AfterDownloadFailure)
          /\ videoResult' = [videoResult EXCEPT !.saved = ok, !.downloadFailed = ~ok]
          /\ videoFiles' = (IF ok THEN videoFiles \cup {videoTried[Len(videoTried)]}
                            ELSE videoFiles)
          /\ videoError' = (IF ~ok /\ AfterDownloadFailure = "failed"
                            THEN VideoErrorMessage("error") ELSE videoError)
    /\ UNCHANGED <<video_output_directory, submitResp, taskId, downloads,
                   videoTried>>
    /\ UNCHANGED <<batchVars, pollVars, taskVars, writerVars, queryVars>>

\* ---------------------------------------------------------------------
\* Properties of job-based generation
\* ---------------------------------------------------------------------

SubmissionFailed(resp) ==
    \/ resp.kind \in {"http", "network"}
    \/ resp.kind = "data" /\ (resp.task_id = "undefined" \/ resp.error # "none")

\* C13: when the submission fails (transport failure, provider-reported
\* failure, or a response without a job handle) the job ends in failure at
\* once and no status query is ever issued for it.
C13_FailedSubmissionNeverPolls ==
    SubmissionFailed(submitResp) =>
        /\ vpc = "failed"
        /\ videoError # "none"
        /\ queries = 0

\* C14: a job that reaches a success status without a result locator ends
\* as a failure, never as a success, and no download is attempted.
C14_SuccessWithoutLocatorFails ==
    (vpc \notin {"polling"} /\ ppc = "returned" /\ pollResult.video_url = "none") =>
        /\ vpc = "failed"
        /\ videoError = "Failed to generate video"
        /\ downloads = 0
        /\ videoResult = NoVideoResult

C14_Witness ==
    /\ vpc = "failed"
    /\ ppc = "returned"
    /\ SaysSuccess(lastResp)
    /\ pollResult.video_url = "none"
    /\ video_output_directory = <<"out">>
    /\ downloads = 0

\* C38: when a job has succeeded with a result locator and the download of
\* the result fails, the job-based generation still ends in success and its
\* result carries the result locator; a download failure never turns a
\* succeeded job into a failure.
C38_DownloadFailureKeepsSuccess ==
    videoResult.downloadFailed =>
        /\ vpc = "done"
        /\ videoError = "none"
        /\ videoResult.video_url # "none"
        /\ videoResult.video_url = pollResult.video_url
        /\ ~videoResult.saved
        /\ videoFiles = {}

C38_Witness ==
    /\ vpc = "done"
    /\ SaysSuccess(lastResp)
    /\ videoResult.downloadFailed
    /\ videoResult.video_url = "X"
    /\ video_output_directory = <<"">>
    /\ videoFiles = {}

\* =====================================================================
\* Single-task runner (generateImage)
\* =====================================================================

\* Reference-image locators: two remote URLs, a local file that exists and
\* a local path with no file behind it.
UrlLocators == {"https://h/a.png", "http://h/b.jpg"}
LocalLocators == {"/p/c.png", "/p/missing.png"}
ExistingFiles == {"/p/c.png"}
RefLocators == {"https://h/a.png", "/p/c.png", "/p/missing.png"}

RECURSIVE SeqsUpTo(_, _)
SeqsUpTo(S, n) ==
    IF n = 0 THEN {<<>>}
    ELSE LET shorter == SeqsUpTo(S, n - 1)
         IN  shorter \cup {Append(q, x) : q \in shorter, x \in S}

GuidanceValues == {MinGuidanceTenths - 1, MinGuidanceTenths, 25,
                   MaxGuidanceTenths, MaxGuidanceTenths + 1}
NumImagesValues == {MinNumImages - 1, MinNumImages, MaxNumImages, MaxNumImages + 1}
ReferenceArgs == {<<>>} \cup {<<q>> : q \in SeqsUpTo(RefLocators, MaxRefs)}
Filenames == {"", "pic", "pic.jpg"}

GenerateImageArgs ==
    [guidance_scale : GuidanceValues, num_images : NumImagesValues,
     reference_images : ReferenceArgs, output_directory : OutputDirectories,
     filename : Filenames]

NoError == [kind |-> "none", about |-> "none"]

\* The two range checks at the head of generateImage.
ValidateArgsGuidanceOnly(a) ==
    IF a.guidance_scale < MinGuidanceTenths \/ a.guidance_scale > MaxGuidanceTenths
    THEN [kind |-> "InvalidParams", about |-> "guidance_scale"]
    ELSE NoError
ValidateArgs(a) ==
    IF a.guidance_scale < MinGuidanceTenths \/ a.guidance_scale > MaxGuidanceTenths
    THEN [kind |-> "InvalidParams", about |-> "guidance_scale"]
    ELSE IF a.num_images < MinNumImages \/ a.num_images > MaxNumImages
    THEN [kind |-> "InvalidParams", about |-> "num_images"]
    ELSE NoError

\* img.startsWith('http://') || img.startsWith('https://')
IsRemote(img) == img \in UrlLocators

\* fs.existsSync(resolvedPath)
ExistsSync(img) == img \in ExistingFiles

\* new Error(`Failed to process image "${img}": ...`)
RefErrorAnonymous(img) == [kind |-> "Error", about |-> "reference image"]
RefError(img) == [kind |-> "Error", about |-> img]

\* One iteration of the for loop of processReferenceImages, up to its await:
\* a URL is fetched, a local path is looked up and, when the file exists,
\* read; past the last locator the function returns.
ProcessRefAt(refs, k, touched) ==
    IF k > Len(refs)
    THEN [pc |-> "post", refIdx |-> k, touched |-> touched, error |-> NoError]
    ELSE IF IsRemote(refs[k])
    THEN [pc |-> "refs", refIdx |-> k, touched |-> Append(touched, refs[k]),
          error |-> NoError]
    ELSE IF ~ExistsSync(refs[k])
    THEN [pc |-> "failed", refIdx |-> k, touched |-> Append(touched, refs[k]),
          error |-> RefError(refs[k])]
    ELSE [pc |-> "refs", refIdx |-> k, touched |-> Append(touched, refs[k]),
          error |-> NoError]

\* The catch clause of one iteration: the error ends the whole function.
AfterRefFailureSkipping(refs, k, touched) == ProcessRefAt(refs, k + 1, touched)
AfterRefFailure(refs, k, touched) ==
    [pc |-> "failed", refIdx |-> k, touched |-> touched, error |-> RefError(refs[k])]

\* if (reference_images) { ... await processReferenceImages(...) }: what
\* generateImage does once the arguments are valid.
AfterValidation(a) ==
    IF a.reference_images # <<>>
    THEN ProcessRefAt(a.reference_images[1], 1, <<>>)
    ELSE [pc |-> "post", refIdx |-> 0, touched |-> <<>>, error |-> NoError]

InitTask ==
    /\ gpc = "idle"
    /\ gargs \in GenerateImageArgs
    /\ refIdx = 0
    /\ refTouched = <<>>
    /\ processedRefs = <<>>
    /\ refFailedAt = <<>>
    /\ genResp = [kind |-> "none", code |-> 0, error |-> "none", content |-> <<>>]
    /\ posts = 0
    /\ imageDatas = <<>>
    /\ saveIdx = 0
    /\ clock = 1
    /\ saveTried = <<>>
    /\ saveOutcomes = <<>>
    /\ filesWritten = {}
    /\ savedPaths = <<>>
    /\ gerror = NoError
    /\ gresult = <<>>

TaskIdle ==
    /\ gpc = "off"
    /\ gargs = [guidance_scale |-> 25, num_images |-> 1, reference_images |-> <<>>,
                output_directory |-> <<>>, filename |-> ""]
    /\ refIdx = 0
    /\ refTouched = <<>>
    /\ processedRefs = <<>>
    /\ refFailedAt = <<>>
    /\ genResp = [kind |-> "none", code |-> 0, error |-> "none", content |-> <<>>]
    /\ posts = 0
    /\ imageDatas = <<>>
    /\ saveIdx = 0
    /\ clock = 1
    /\ saveTried = <<>>
    /\ saveOutcomes = <<>>
    /\ filesWritten = {}
    /\ savedPaths = <<>>
    /\ gerror = NoError
    /\ gresult = <<>>

\* Moving on from reference processing: to the next await of
\* processReferenceImages, to the generation request, or to the error.
RefStep(r) ==
    /\ refIdx' = r.refIdx
    /\ refTouched' = r.touched
    /\ gerror' = r.error
    /\ IF r.pc = "post"
       THEN gpc' = "posting" /\ posts' = posts + 1
       ELSE gpc' = r.pc /\ UNCHANGED posts

\* The call of generateImage up to its first await.
GenCall ==
    /\ gpc = "idle"
    /\ IF ValidateArgs(gargs) # NoError
       THEN /\ gpc' = "failed"
            /\ gerror' = ValidateArgs(gargs)
            /\ UNCHANGED <<refIdx, refTouched, posts>>
       ELSE RefStep(AfterValidation(gargs))
    /\ UNCHANGED <<gargs, processedRefs, refFailedAt, genResp, imageDatas, saveIdx,
                   clock, saveTried, saveOutcomes, filesWritten, savedPaths, gresult>>
    /\ UNCHANGED <<batchVars, pollVars, videoVars, writerVars, queryVars>>

\* The fetch or read of the current reference image ends: on success its
\* data URL is pushed and the loop goes on, on failure the catch clause
\* throws.
RefResponds ==
    /\ gpc = "refs"
    /\ \E ok \in BOOLEAN :
          LET refs == gargs.reference_images[1]
          IN  IF ok
              THEN /\ processedRefs' = Append(processedRefs, refs[refIdx])
                   /\ RefStep(ProcessRefAt(refs, refIdx + 1, refTouched))
                   /\ UNCHANGED refFailedAt
              ELSE /\ UNCHANGED processedRefs
                   /\ RefStep(AfterRefFailure(refs, refIdx, refTouched))
                   /\ refFailedAt' = Append(refFailedAt, refIdx)
    /\ UNCHANGED <<gargs, genResp, imageDatas, saveIdx, clock, saveTried,
                   saveOutcomes, filesWritten, savedPaths, gresult>>
    /\ UNCHANGED <<batchVars, pollVars, videoVars, writerVars, queryVars>>

\* ---------------------------------------------------------------------
\* The generation request, extraction and persistence
\* ---------------------------------------------------------------------

\* The response text as the pieces the three regular expressions can see:
\* an inline data block, a markdown image ![alt](url), a bare URL, or other
\* text. A URL either ends in an image extension or does not.
InlineA == "data:image/png;base64,QUJD"
UrlOne == "https://h/1.png"
UrlTwo == "https://h/2.webp"
UrlPage == "https://h/view?id=3"
UrlSigned == "https://h/4.png?sig=9"
ImageUrls == {UrlOne, UrlTwo}

Tok(t, v) == [t |-> t, v |-> v]
TaskContents ==
    { <<>>,
      <<Tok("text", "sorry")>>,
      <<Tok("markdown", UrlOne)>>,
      <<Tok("markdown", UrlPage), Tok("bare", UrlPage)>>,
      <<Tok("bare", UrlTwo), Tok("markdown", UrlOne), Tok("inline", InlineA)>>,
      <<Tok("inline", InlineA), Tok("text", "and"), Tok("inline", InlineA)>>,
      <<Tok("markdown", UrlOne), Tok("bare", UrlOne)>>,
      <<Tok("inline", InlineA), Tok("markdown", UrlSigned), Tok("bare", UrlTwo)>> }

\* /(https?:\/\/[^\s\)]+\.(?:jpg|jpeg|png|gif|webp))/gi: the URL holds an image
\* extension, and the match ends at the last one, whatever follows it.
HasImageExtension(url) == url \in ImageUrls \cup {UrlSigned}
UrlRegexCapture(url) == IF url = UrlSigned THEN "https://h/4.png" ELSE url

\* while ((match = regex.exec(content)) !== null) imageDatas.push(match[1])
RECURSIVE PushAll(_, _)
PushAll(acc, vals) ==
    IF vals = <<>> THEN acc ELSE PushAll(Append(acc, Head(vals)), Tail(vals))

\* ... if (!imageDatas.includes(match[1])) imageDatas.push(match[1])
RECURSIVE PushMissing(_, _)
PushMissing(acc, vals) ==
    IF vals = <<>> THEN acc
    ELSE IF \E k \in 1 .. Len(acc) : acc[k] = Head(vals)
    THEN PushMissing(acc, Tail(vals))
    ELSE PushMissing(Append(acc, Head(vals)), Tail(vals))

\* What each regular expression matches, and match[1] of the matches in
\* text order.
Base64Hit(tok) == tok.t = "inline"
MarkdownHit(tok) == tok.t = "markdown"
UrlHit(tok) == tok.t \in {"markdown", "bare"} /\ HasImageExtension(tok.v)
CapturesOf(hits) == [k \in 1 .. Len(hits) |-> hits[k].v]
UrlCapturesOf(hits) == [k \in 1 .. Len(hits) |-> UrlRegexCapture(hits[k].v)]

\* extractImageData: inline data blocks, then markdown images, then URLs
\* that end in an image extension.
ExtractImageData(content) ==
    PushMissing(
        PushMissing(PushAll(<<>>, CapturesOf(SelectSeq(content, Base64Hit))),
                    CapturesOf(SelectSeq(content, MarkdownHit))),
        UrlCapturesOf(SelectSeq(content, UrlHit)))

\* if (imageDatas.length === 0) throw new Error("No image data ...")
NoImageDataUnchecked(datas) == FALSE
NoImageData(datas) == Len(datas) = 0

\* What the generation POST can come back with: no response, an HTTP error,
\* a 2xx body with an error field, or a 2xx body with content.
GenResponses ==
    [kind : {"network"}, code : {0}, error : {"none"}, content : {<<>>}]
    \cup [kind : {"http"}, code : {500}, error : {"none"}, content : {<<>>}]
    \cup [kind : {"data"}, code : {200}, error : {"E"}, content : {<<>>}]
    \cup [kind : {"data"}, code : {200}, error : {"none"}, content : TaskContents]

\* The catch clause of generateImage: every error becomes InternalError.
GenError(about) == [kind |-> "InternalError", about |-> about]

\* path.extname and path.basename(filename, ext) on the file names above.
Extname(f) == IF f = "pic.jpg" THEN ".jpg" ELSE ""
Basename(f, ext) == IF f = "pic.jpg" /\ ext = ".jpg" THEN "pic" ELSE f

\* The file name of the image at loop index idx out of n.
FinalFilename(filename, n, idx, timestamp) ==
    IF filename # ""
    THEN IF n > 1
         THEN LET ext == IF Extname(filename) # "" THEN Extname(filename) ELSE ".png"
              IN  [base |-> Basename(filename, ext), ts |-> 0, idx |-> idx + 1, ext |-> ext]
         ELSE [base |-> Basename(filename, Extname(filename)), ts |-> 0, idx |-> 0,
               ext |-> IF Extname(filename) # "" THEN Extname(filename) ELSE ".png"]
    ELSE [base |-> "comic", ts |-> timestamp, idx |-> idx + 1, ext |-> ".png"]

\* if (output_directory !== undefined && output_directory !== null)
WantsSaveTruthy(dir) == dir # <<>> /\ dir[1] # ""
WantsSave(dir) == dir # <<>>

\* const targetDir = output_directory || getDefaultOutputDirectory()
TargetDir(dir) == IF dir[1] = "" THEN "tmp/comic-images" ELSE dir[1]

Filepath(a, n, idx, timestamp) ==
    [dir |-> TargetDir(a.output_directory),
     name |-> FinalFilename(a.filename, n, idx, timestamp)]

\* imageDatas.forEach(...): per image, the path reported as "Saved to", if any.
ReportOf(datas, paths) ==
    [k \in 1 .. Len(datas) |-> IF k <= Len(paths) THEN <<paths[k]>> ELSE <<>>]

\* The generation POST comes back: errors go to the catch clause, the text
\* is searched for images, and with an output directory the first image is
\* handed to saveImage.
PostResponds ==
    /\ gpc = "posting"
    /\ \E resp \in GenResponses, now \in {clock, clock + 1} :
          /\ now <= MaxClock
          /\ genResp' = resp
          /\ IF resp.kind # "data"
             THEN /\ gpc' = "failed"
                  /\ gerror' = GenError(IF resp.kind = "http" THEN "API error"
                                        ELSE "No response from API")
                  /\ UNCHANGED <<imageDatas, clock, saveTried, gresult>>
             ELSE IF resp.error # "none"
             THEN /\ gpc' = "failed"
                  /\ gerror' = GenError(resp.error)
                  /\ UNCHANGED <<imageDatas, clock, saveTried, gresult>>
             ELSE LET datas == ExtractImageData(resp.content)
                  IN  IF NoImageData(datas)
                      THEN /\ gpc' = "failed"
                           /\ gerror' = GenError("No image data")
                           /\ UNCHANGED <<imageDatas, clock, saveTried, gresult>>
                      ELSE /\ imageDatas' = datas
                           /\ UNCHANGED gerror
                           /\ IF WantsSave(gargs.output_directory) /\ 0 < Len(datas)
                              THEN /\ gpc' = "saving"
                                   /\ clock' = now
                                   /\ saveTried' = Append(saveTried,
                                          Filepath(gargs, Len(datas), 0, now))
                                   /\ UNCHANGED gresult
                              ELSE /\ gpc' = "done"
                                   /\ gresult' = ReportOf(datas, <<>>)
                                   /\ UNCHANGED <<clock, saveTried>>
    /\ UNCHANGED <<gargs, refIdx, refTouched, processedRefs, refFailedAt, posts,
                   saveIdx, saveOutcomes, filesWritten, savedPaths>>
    /\ UNCHANGED <<batchVars, pollVars, videoVars, writerVars, queryVars>>

\* try { await saveImage(...); savedPaths.push(filepath) } catch { log }:
\* where generateImage stands after the save of the image at loop index idx
\* out of n has ended. The catch clause swallows the error.
AfterSaveImageRethrow(ok, idx, n) ==
    IF ~ok THEN "failed" ELSE IF idx + 1 < n THEN "saving" ELSE "done"
AfterSaveImage(ok, idx, n) == IF idx + 1 < n THEN "saving" ELSE "done"

\* saveImage of the current image ends: on success its path is pushed on
\* savedPaths, on failure the error is logged; the loop goes on to the next
\* image or, after the last one, the result text is built.
SaveEnds ==
    /\ gpc = "saving"
    /\ \E ok \in BOOLEAN, now \in {clock, clock + 1} :
          /\ now <= MaxClock
          /\ LET path == saveTried[Len(saveTried)]
                 paths == IF ok THEN Append(savedPaths, path) ELSE savedPaths
                 next == AfterSaveImage(ok, saveIdx, Len(imageDatas))
             IN  /\ savedPaths' = paths
                 /\ filesWritten' = (IF ok THEN filesWritten \cup {path} ELSE filesWritten)
                 /\ saveOutcomes' = Append(saveOutcomes, ok)
                 /\ saveIdx' = saveIdx + 1
                 /\ gpc' = next
                 /\ CASE next = "saving" ->
                           /\ clock' = now
                           /\ saveTried' = Append(saveTried,
                                  Filepath(gargs, Len(imageDatas), saveIdx + 1, now))
                           /\ UNCHANGED <<gresult, gerror>>
                      [] next = "done" ->
                           /\ gresult' = ReportOf(imageDatas, paths)
                           /\ UNCHANGED <<clock, saveTried, gerror>>
                      [] OTHER ->
                           /\ gerror' = GenError("save")
                           /\ UNCHANGED <<clock, saveTried, gresult>>
    /\ UNCHANGED <<gargs, refIdx, refTouched, processedRefs, refFailedAt, genResp,
                   posts, imageDatas>>
    /\ UNCHANGED <<batchVars, pollVars, videoVars, writerVars, queryVars>>

\* ---------------------------------------------------------------------
\* Properties of the single-task runner
\* ---------------------------------------------------------------------

NoSideEffects ==
    /\ refTouched = <<>>
    /\ posts = 0
    /\ saveTried = <<>>
    /\ filesWritten = {}

\* C17: a task whose guidance strength is outside [1.0, 10.0] or whose image
\* count is outside [1, 4] fails with InvalidParams before any reference
\* image is looked at, any request is sent and any file is written.
C17_InvalidParamsBeforeSideEffects ==
    (gpc \notin {"idle", "off"}
        /\ (gargs.guidance_scale \notin 10 .. 100 \/ gargs.num_images \notin 1 .. 4)) =>
        /\ gpc = "failed"
        /\ gerror.kind = "InvalidParams"
        /\ NoSideEffects

C17_Witness ==
    /\ gpc = "failed"
    /\ gargs.guidance_scale = 25
    /\ gargs.num_images = 5
    /\ Len(gargs.reference_images) = 1
    /\ Len(gargs.reference_images[1]) = 2
    /\ gargs.output_directory = <<"out">>
    /\ gerror.kind = "InvalidParams"

\* Where normalization failed, as seen from outside: a fetch or read that
\* came back with a failure, or a looked-up local path with no file.
RefsOf(a) == IF a.reference_images = <<>> THEN <<>> ELSE a.reference_images[1]
RefFailurePositions ==
    {refFailedAt[k] : k \in 1 .. Len(refFailedAt)}
        \cup {k \in 1 .. Len(refTouched) : refTouched[k] = "/p/missing.png"}
FirstRefFailure ==
    CHOOSE j \in RefFailurePositions : \A k \in RefFailurePositions : j <= k

\* C18: when normalizing a reference image fails, the task ends in failure
\* and the generation endpoint is never contacted.
C18_RefFailureNeverPosts ==
    RefFailurePositions # {} =>
        /\ gpc = "failed"
        /\ gerror # NoError
        /\ posts = 0
        /\ filesWritten = {}

C18_Witness ==
    /\ gpc = "failed"
    /\ refFailedAt = <<2>>
    /\ Len(processedRefs) = 1
    /\ posts = 0

\* C19: normalization is fail-fast: when the j-th locator fails, the error
\* names the j-th locator and no locator after position j is touched.
C19_RefFailFast ==
    RefFailurePositions # {} =>
        LET j == FirstRefFailure
        IN  /\ gpc = "failed"
            /\ gerror.about = RefsOf(gargs)[j]
            /\ refTouched = SubSeq(RefsOf(gargs), 1, j)
            /\ processedRefs = SubSeq(RefsOf(gargs), 1, j - 1)

C19_Witness ==
    /\ gpc = "failed"
    /\ RefsOf(gargs) = <<"https://h/a.png", "/p/c.png">>
    /\ refFailedAt = <<1>>
    /\ gerror.about = "https://h/a.png"
    /\ refTouched = <<"https://h/a.png">>

\* A response text in which none of the three passes can find an image.
HasNoImage(content) ==
    \A k \in 1 .. Len(content) :
        \/ content[k].t = "text"
        \/ content[k].t = "bare" /\ content[k].v \notin {UrlOne, UrlTwo}

\* C20: a task whose response yields no image reference ends as a failure;
\* a task never ends as a success with an empty output list, and nothing is
\* persisted for it.
C20_NoImageDataFails ==
    /\ (genResp.kind = "data" /\ genResp.error = "none" /\ HasNoImage(genResp.content)) =>
          /\ gpc = "failed"
          /\ gerror.kind = "InternalError"
          /\ saveTried = <<>>
          /\ filesWritten = {}
    /\ gpc = "done" => Len(imageDatas) >= 1 /\ Len(gresult) >= 1

C20_Witness ==
    /\ gpc = "failed"
    /\ genResp.kind = "data"
    /\ genResp.content = <<Tok("text", "sorry")>>
    /\ gerror = [kind |-> "InternalError", about |-> "No image data"]
    /\ posts = 1
    /\ gargs.output_directory = <<"out">>
    /\ saveTried = <<>>

\* Where a requested directory puts the files, as the caller sees it.
ExpectedDir(dir) == IF dir = <<"">> THEN "tmp/comic-images" ELSE dir[1]

SomeSaveFailed == \E k \in 1 .. Len(saveOutcomes) : ~saveOutcomes[k]

\* C22: when saving the i-th output of a task fails, the task still ends in
\* success and the save of every later output is still attempted; a save
\* failure never turns the task into a failure.
C22_SaveFailureNeverFailsTask ==
    SomeSaveFailed =>
        /\ gpc \in {"saving", "done"}
        /\ gerror = NoError
        /\ gpc = "saving" => Len(saveTried) = Len(saveOutcomes) + 1
        /\ gpc = "done" =>
              /\ Len(saveTried) = Len(imageDatas)
              /\ Len(saveOutcomes) = Len(imageDatas)
              /\ Len(gresult) = Len(imageDatas)

C22_Witness ==
    /\ gpc = "done"
    /\ Len(saveOutcomes) >= 3
    /\ ~saveOutcomes[1]
    /\ saveOutcomes[2]
    /\ ~saveOutcomes[3]
    /\ Cardinality(filesWritten) = 1

\* C23: in a task's success result, output i is reported with a saved path
\* exactly when the save of output i succeeded, and that path is the file
\* output i was written to; an output whose save failed is reported without
\* a saved path.
C23_ReportedPathIffSaved ==
    gpc = "done" =>
        \A k \in 1 .. Len(imageDatas) :
            gresult[k] = (IF k <= Len(saveOutcomes) /\ saveOutcomes[k]
                          THEN <<saveTried[k]>> ELSE <<>>)

\* C24: the sequence the content extractor returns holds no locator value
\* twice, also when the same inline data block occurs more than once in the
\* response text.
C24_ExtractorNoDuplicates ==
    \A j, k \in 1 .. Len(imageDatas) : j # k => imageDatas[j] # imageDatas[k]

\* The order the response text asks for: inline blocks, then markdown image
\* URLs, then bare image URLs, each value once, each group in text order.
IsBareImageUrl(tok) == tok.t = "bare" /\ tok.v \in {UrlOne, UrlTwo}
IsInlineBlock(tok) == tok.t = "inline"
IsMarkdownImage(tok) == tok.t = "markdown"
PriorityOrder(content) ==
    PushMissing(
        PushMissing(PushMissing(<<>>, CapturesOf(SelectSeq(content, IsInlineBlock))),
                    CapturesOf(SelectSeq(content, IsMarkdownImage))),
        CapturesOf(SelectSeq(content, IsBareImageUrl)))
InlineBlocksDistinct(content) ==
    \A j, k \in 1 .. Len(content) :
        (j # k /\ content[j].t = "inline" /\ content[k].t = "inline") =>
            content[j].v # content[k].v

\* C25: the extractor orders its output by pass priority, not by position
\* in the text: inline data blocks, then markdown image URLs not yet present,
\* then bare image URLs not yet present; a text with one inline block, one
\* markdown image and one bare URL of distinct values yields exactly those
\* three references in that order.
C25_ExtractorPriorityOrder ==
    (gpc \in {"saving", "done"} /\ InlineBlocksDistinct(genResp.content)) =>
        imageDatas = PriorityOrder(genResp.content)

\* C37: a single task writes files only after its generation call has
\* succeeded and at least one image reference was extracted: a task that
\* ends in failure (validation, normalization, transport, provider error or
\* no image data) has written no output file.
C37_FailedTaskWritesNothing ==
    /\ gpc = "failed" => saveTried = <<>> /\ filesWritten = {}
    /\ saveTried # <<>> =>
          /\ gpc \in {"saving", "done"}
          /\ genResp.kind = "data"
          /\ genResp.error = "none"
          /\ Len(imageDatas) >= 1

C37_Witness ==
    /\ gpc = "failed"
    /\ gargs.output_directory = <<"out">>
    /\ genResp.kind = "data"
    /\ genResp.error = "E"
    /\ Len(processedRefs) = 2
    /\ filesWritten = {}

\* =====================================================================
\* Concurrent tasks of one batch that persist their outputs: every task is
\* a call of generateImage started by the for loop of runWithConcurrency,
\* seen from its generation request on. All tasks read the same Date.now().
\* =====================================================================

Writers == 1 .. MaxWriters

WriterArgs == [output_directory : {<<"">>, <<"out">>}, filename : {"", "pic"}]

InitWriters ==
    /\ wpc = [t \in Writers |-> "idle"]
    /\ wargs \in [Writers -> WriterArgs]
    /\ wcount = [t \in Writers |-> 0]
    /\ widx = [t \in Writers |-> 0]
    /\ wpath = [t \in Writers |-> <<>>]
    /\ wfiles = [t \in Writers |-> {}]

WritersIdle ==
    /\ wpc = <<>>
    /\ wargs = <<>>
    /\ wcount = <<>>
    /\ widx = <<>>
    /\ wpath = <<>>
    /\ wfiles = <<>>

\* The for loop of runWithConcurrency with a limit that is not below the
\* number of tasks: every task is started in turn, and each runs to the
\* await of its generation request.
WritersCall ==
    /\ \A t \in Writers : wpc[t] = "idle"
    /\ wpc' = [t \in Writers |-> "posting"]
    /\ UNCHANGED <<wargs, wcount, widx, wpath, wfiles>>
    /\ UNCHANGED <<batchVars, pollVars, videoVars, taskVars, queryVars>>

\* The generation request of task t comes back with n images: the first one
\* is named from Date.now() and handed to saveImage.
WriterPostResponds(t) ==
    /\ wpc[t] = "posting"
    /\ \E n \in 1 .. MaxOutputs, now \in {clock, clock + 1} :
          /\ now <= MaxClock
          /\ clock' = now
          /\ wcount' = [wcount EXCEPT ![t] = n]
          /\ wpath' = [wpath EXCEPT ![t] = <<Filepath(wargs[t], n, 0, now)>>]
    /\ wpc' = [wpc EXCEPT ![t] = "saving"]
    /\ UNCHANGED <<wargs, widx, wfiles>>
    /\ UNCHANGED <<batchVars, pollVars, videoVars, taskVarsButClock, queryVars>>

\* saveImage of task t ends; the loop names the next image from Date.now()
\* or, after the last one, the task returns.
WriterSaveEnds(t) ==
    /\ wpc[t] = "saving"
    /\ \E ok \in BOOLEAN, now \in {clock, clock + 1} :
          /\ now <= MaxClock
          /\ wfiles' = [wfiles EXCEPT ![t] = IF ok THEN @ \cup {wpath[t][1]} ELSE @]
          /\ widx' = [widx EXCEPT ![t] = @ + 1]
          /\ IF AfterSaveImage(ok, widx[t], wcount[t]) = "saving"
             THEN /\ clock' = now
                  /\ wpath' = [wpath EXCEPT ![t] =
                                  <<Filepath(wargs[t], wcount[t], widx[t] + 1, now)>>]
                  /\ UNCHANGED wpc
             ELSE /\ wpc' = [wpc EXCEPT ![t] = "done"]
                  /\ wpath' = [wpath EXCEPT ![t] = <<>>]
                  /\ UNCHANGED clock
    /\ UNCHANGED <<wargs, wcount>>
    /\ UNCHANGED <<batchVars, pollVars, videoVars, taskVarsButClock, queryVars>>

\* C26: two tasks of one batch never write the same file path: for tasks
\* running concurrently that persist into the same directory with generated
\* names (timestamp+index), the sets of file paths written by distinct
\* tasks are disjoint.
C26_TasksWriteDisjointPaths ==
    \A s, t \in DOMAIN wfiles :
        (/\ s # t
         /\ wargs[s].filename = ""
         /\ wargs[t].filename = ""
         /\ wargs[s].output_directory = wargs[t].output_directory) =>
            wfiles[s] \cap wfiles[t] = {}

\* =====================================================================
\* Job status query (querySora2Task)
\* =====================================================================

TaskIds == {"", "T1", "T2"}

InitQuery ==
    /\ qpc = "idle"
    /\ query_task_id \in TaskIds
    /\ qresp = NoResponse
    /\ qreport = "none"
    /\ qerror = "none"

QueryIdle ==
    /\ qpc = "off"
    /\ query_task_id = ""
    /\ qresp = NoResponse
    /\ qreport = "none"
    /\ qerror = "none"

\* The if / else-if chain of querySora2Task over taskData.status and
\* taskData.error: what the text says about the job, "none" when no branch
\* applies. The status is compared as the provider sent it.
ReportOfStatus(resp) ==
    IF resp.status = "completed" \/ resp.status = "success" THEN "completed"
    ELSE IF resp.status = "failed" \/ resp.error # "none" THEN "failed"
    ELSE IF resp.status = "processing" \/ resp.status = "pending" THEN "running"
    ELSE "none"

\* The tool call up to its await: a missing task_id is rejected, otherwise
\* the status query is sent.
QueryCall ==
    /\ qpc = "idle"
    /\ IF query_task_id = ""
       THEN qpc' = "failed" /\ qerror' = "InvalidParams"
       ELSE qpc' = "querying" /\ UNCHANGED qerror
    /\ UNCHANGED <<query_task_id, qresp, qreport>>
    /\ UNCHANGED <<batchVars, pollVars, videoVars, taskVars, writerVars>>

\* The status query comes back: task data is reported, every failure of the
\* request becomes an InternalError.
QueryReturns ==
    /\ qpc = "querying"
    /\ \E resp \in Responses :
          /\ qresp' = resp
          /\ IF resp.kind = "data"
             THEN /\ qpc' = "done"
                  /\ qreport' = ReportOfStatus(resp)
                  /\ UNCHANGED qerror
             ELSE /\ qpc' = "failed"
                  /\ qerror' = "InternalError"
                  /\ UNCHANGED qreport
    /\ UNCHANGED query_task_id
    /\ UNCHANGED <<batchVars, pollVars, videoVars, taskVars, writerVars>>

\* C36: the job status query and the poller classify every provider status
\* the same way: a status response is reported as completed, failed or still
\* running by the query exactly when the poller would treat the same
\* response as success, failure or continue.
C36_QueryAgreesWithPoller ==
    qpc = "done" =>
        /\ qreport = "completed" <=> ClassifyResponse(qresp) = "return"
        /\ qreport = "failed" <=> ClassifyResponse(qresp) = "throw_failed"
        /\ qreport \in {"running", "none"} <=> ClassifyResponse(qresp) = "sleep"

PollIdle ==
    /\ hd = FALSE
    /\ duration = "10"
    /\ ppc = "off"
    /\ maxWaitMinutes = 0
    /\ maxAttempts = 0
    /\ attempts = 0
    /\ queries = 0
    /\ responses = 0
    /\ lastResp = NoResponse
    /\ prefixRunning = TRUE
    /\ prefixBenign = TRUE
    /\ seenNotFound = FALSE
    /\ sleeps = 0
    /\ pollResult = NoResponse
    /\ pollError = "none"
    /\ pollReason = "none"

Init == InitBatch /\ PollIdle /\ VideoIdle /\ TaskIdle /\ WritersIdle /\ QueryIdle
Next == BatchCall \/ TaskSettles \/ RaceResumes \/ AllResumes
Spec == Init /\ [][Next]_vars

\* Every started generateImage call returns or throws (its requests carry
\* timeouts), and a settled promise resumes the code awaiting it: no step
\* that can be taken is postponed forever.
FairSpec == Spec /\ WF_vars(Next)

\* The poller on its own.
InitPoller == BatchIdle /\ InitPoll /\ VideoIdle /\ TaskIdle /\ WritersIdle /\ QueryIdle
NextPoller == PollCall \/ QueryResponds \/ SleepElapses
SpecPoller == InitPoller /\ [][NextPoller]_vars

\* Every status query is answered or fails within its 30 s timeout and
\* every 10 s wait ends, so no step of the poller is postponed forever.
FairSpecPoller ==
    /\ SpecPoller
    /\ WF_vars(PollCall) /\ WF_vars(QueryResponds) /\ WF_vars(SleepElapses)

\* One job-based generation call, from submission to the returned text.
InitVideoJob ==
    /\ BatchIdle
    /\ TaskIdle
    /\ WritersIdle
    /\ QueryIdle
    /\ InitVideo
    /\ hd \in BOOLEAN
    /\ duration \in Durations
    /\ ppc = "off"
    /\ maxWaitMinutes = 0
    /\ maxAttempts = 0
    /\ attempts = 0
    /\ queries = 0
    /\ responses = 0
    /\ lastResp = NoResponse
    /\ prefixRunning = TRUE
    /\ prefixBenign = TRUE
    /\ seenNotFound = FALSE
    /\ sleeps = 0
    /\ pollResult = NoResponse
    /\ pollError = "none"
    /\ pollReason = "none"
NextVideoJob ==
    \/ VideoCall \/ SubmitResponds \/ QueryResponds \/ SleepElapses
    \/ PollReturns \/ DownloadResponds \/ VideoWriteEnds
SpecVideoJob == InitVideoJob /\ [][NextVideoJob]_vars

\* One call of generateImage, from its arguments to its result or error.
InitSingleTask == BatchIdle /\ PollIdle /\ VideoIdle /\ InitTask /\ WritersIdle /\ QueryIdle
NextSingleTask == GenCall \/ RefResponds \/ PostResponds \/ SaveEnds
SpecSingleTask == InitSingleTask /\ [][NextSingleTask]_vars

\* One call of either tool that can persist what it generated: generateImage,
\* or generateSora2Video for the base job.
InitPersist ==
    \/ InitSingleTask
    \/ InitVideoJob /\ hd = FALSE /\ duration = "10"
NextPersist == NextSingleTask \/ NextVideoJob
SpecPersist == InitPersist /\ [][NextPersist]_vars

\* The tasks of one batch, all in flight, saving what they generated.
InitBatchWriters == BatchIdle /\ PollIdle /\ VideoIdle /\ TaskIdle /\ InitWriters /\ QueryIdle
NextBatchWriters ==
    \/ WritersCall
    \/ \E t \in Writers : WriterPostResponds(t)
    \/ \E t \in Writers : WriterSaveEnds(t)
SpecBatchWriters == InitBatchWriters /\ [][NextBatchWriters]_vars

\* One call of the job status query.
InitStatusQuery ==
    BatchIdle /\ PollIdle /\ VideoIdle /\ TaskIdle /\ WritersIdle /\ InitQuery
NextStatusQuery == QueryCall \/ QueryReturns
SpecStatusQuery == InitStatusQuery /\ [][NextStatusQuery]_vars

====
